---- MODULE Spec2Model ----
(***************************************************************************)
(* State-machine model of the voice agent in examples/demo/server.py:      *)
(* the closure state of stream_websocket_handler, the Deepgram listener    *)
(* task with its on_deepgram_message turn handler, the reply streamer      *)
(* stream_elevenlabs_audio, and the Plivo control-event callbacks.         *)
(* The two asyncio tasks interleave only at await points, so every action  *)
(* below is the code that runs between two consecutive awaits.             *)
(***************************************************************************)
EXTENDS Integers, Sequences, FiniteSets, TLC

\* ---------------------------------------------------------------- bounds
MaxTurns == 2          \* EndOfTurn events per connection under Spec
MaxExchanges == 12     \* EndOfTurn events per connection under SpecHist
MaxChunks == 2         \* audio chunks the synthesis collaborator yields per reply
MaxInbox == 2          \* transcription messages received but not yet handled
MaxDisconnects == 2    \* disconnected notifications per connection
MaxMedia == 2          \* inbound media events per connection under SpecRelay
MaxRelayTurns == 2     \* EndOfTurn events per connection under SpecRelay and SpecLog
MaxLogEvents == 2      \* DTMF and cleared-audio events per connection under SpecLog

\* ------------------------------------------------------ program constants
HistoryCap == 20       \* server.py:88  "if len(history) > 20"
StreamIds == {"s1", "s2"}
Unknown == "unknown"   \* server.py:258 "current_stream_id or 'unknown'"
None == "None"
SYSTEM_PROMPT == "SYSTEM_PROMPT"   \* server.py:52
SleepMs == 15          \* server.py:228 "await asyncio.sleep(0.015)"
PcmRate == 16000       \* server.py:217 output_format="pcm_16000"
ChunkBytes == {320, 480, 1024}     \* sizes of the chunks the synthesis stream may yield

VARIABLES
    playing,                            \* server.py:205
    current_stream_id,                  \* server.py:206
    conversation_history_by_stream_id,  \* server.py:207, key -> list object
    heap,                               \* the list objects the dict entries refer to
    deepgram_connection,                \* server.py:203
    connection,                         \* state of the Deepgram websocket
    deepgram_task,                      \* server.py:338
    plivo_task,                         \* server.py:339
    ws_handler,                         \* server.py:340-344
    inbox,                              \* messages read by start_listening, in arrival order
    arrived,                            \* number of EndOfTurn events received so far
    cycles,                             \* transcripts of the response cycles started, in start order
    frames,                             \* running on_deepgram_message invocations
    pending_checkpoints,                \* checkpoints sent and not yet reported played
    disconnects,                        \* disconnected notifications handled
    media_in,                           \* inbound media events handled so far
    dg_media,                           \* send_media calls made on deepgram_connection, in call order
    logged                              \* control events that were handled by a logger call only

vars == <<playing, current_stream_id, conversation_history_by_stream_id, heap,
          deepgram_connection, connection, deepgram_task, plivo_task, ws_handler,
          inbox, arrived, cycles, frames, pending_checkpoints, disconnects,
          media_in, dg_media, logged>>

\* ------------------------------------------------------------- helpers
Turn(role, content) == [role |-> role, content |-> content]

Cmd(name, chunk) == [cmd |-> name, chunk |-> chunk]

\* the trim left out
TrimNone(history) == history

\* history[-19:] in place of history[-20:]
TrimOffByOne(history) ==
    IF Len(history) > HistoryCap
    THEN SubSeq(history, Len(history) - HistoryCap + 2, Len(history))
    ELSE history

\* history[:20] in place of history[-20:]
TrimKeepOldest(history) ==
    IF Len(history) > HistoryCap THEN SubSeq(history, 1, HistoryCap) ELSE history

\* "if len(history) > 20: history[:] = history[-20:]"
Trim(history) ==
    IF Len(history) > HistoryCap
    THEN SubSeq(history, Len(history) - HistoryCap + 1, Len(history))
    ELSE history

\* history.append({"role": "user", "content": user_message})
AppendUser(history, user_message) == Append(history, Turn("user", user_message))

\* history.append({"role": "assistant", ...}) followed by the trim
AppendAssistant(history, assistant_response) ==
    Trim(Append(history, Turn("assistant", assistant_response)))

\* setdefault with one list object shared by every new key
SetDefaultStoreShared(store, key) ==
    IF key \in DOMAIN store THEN store ELSE store @@ (key :> 1)

\* dict.setdefault(key, []): the dict and the heap after the call
SetDefaultStore(store, key) ==
    IF key \in DOMAIN store THEN store ELSE store @@ (key :> Len(heap) + 1)

SetDefaultHeap(store, key) ==
    IF key \in DOMAIN store THEN heap ELSE Append(heap, << >>)

\* del d[key]
DelKey(store, key) == [k \in DOMAIN store \ {key} |-> store[k]]

\* the request holds the last user message only
RequestMessagesLastOnly(history) ==
    <<Turn("system", SYSTEM_PROMPT), history[Len(history)]>>

\* get_openai_response: messages=[{"role": "system", ...}, *history]
RequestMessages(history) == <<Turn("system", SYSTEM_PROMPT)>> \o history

\* the reply the generation collaborator returns for transcript n is named n
Reply(transcript) == transcript

Messages(max) ==
    {[type |-> "TurnInfo", event |-> "StartOfTurn", transcript |-> 0],
     [type |-> "Connected", event |-> "None", transcript |-> 0]}
    \cup (IF arrived < max
          THEN {[type |-> "TurnInfo", event |-> "EndOfTurn", transcript |-> arrived + 1]}
          ELSE {})

IsEndOfTurn(message) == message.type = "TurnInfo" /\ message.event = "EndOfTurn"

\* ------------------------------------------------------------------ Init
Init ==
    /\ playing = FALSE
    /\ current_stream_id = None
    /\ conversation_history_by_stream_id = << >>
    /\ heap = << >>
    /\ deepgram_connection = None
    /\ connection = "unopened"
    /\ deepgram_task = "connecting"
    /\ plivo_task = "running"
    /\ ws_handler = "gathering"
    /\ inbox = << >>
    /\ arrived = 0
    /\ cycles = << >>
    /\ frames = {}
    /\ pending_checkpoints = 0
    /\ disconnects = 0
    /\ media_in = 0
    /\ dg_media = << >>
    /\ logged = << >>

\* ------------------------------------------------- Deepgram listener task
\* async with connect(...) as connection; deepgram_connection = connection;
\* connection.on(MESSAGE, on_deepgram_message); await connection.start_listening()
connect_and_listen_deepgram ==
    /\ deepgram_task = "connecting"
    /\ deepgram_connection' = "connection"
    /\ connection' = "open"
    /\ deepgram_task' = "listening"
    /\ UNCHANGED <<logged, media_in, dg_media, playing, current_stream_id, conversation_history_by_stream_id, heap,
                   plivo_task, ws_handler, inbox, arrived, cycles, frames,
                   pending_checkpoints, disconnects>>

\* the transcription service delivers the next message on the open socket
DeepgramMessageArrives(max) ==
    /\ connection = "open"
    /\ Len(inbox) < MaxInbox
    /\ \E message \in Messages(max) :
          /\ inbox' = Append(inbox, message)
          /\ arrived' = IF IsEndOfTurn(message) THEN arrived + 1 ELSE arrived
    /\ UNCHANGED <<logged, media_in, dg_media, playing, current_stream_id, conversation_history_by_stream_id, heap,
                   deepgram_connection, connection, deepgram_task, plivo_task, ws_handler,
                   cycles, frames, pending_checkpoints, disconnects>>

\* start_listening spawns the callback without awaiting it
ListenerReadyNoAwait == deepgram_task = "listening"

\* start_listening awaits the callback of one message before reading the next
ListenerReady == deepgram_task = "listening" /\ frames = {}

\* on_deepgram_message for a message that is not an EndOfTurn: logging only
on_deepgram_message_log ==
    /\ ListenerReady
    /\ inbox # << >>
    /\ ~IsEndOfTurn(Head(inbox))
    /\ inbox' = Tail(inbox)
    /\ UNCHANGED <<logged, media_in, dg_media, playing, current_stream_id, conversation_history_by_stream_id, heap,
                   deepgram_connection, connection, deepgram_task, plivo_task, ws_handler,
                   arrived, cycles, frames, pending_checkpoints, disconnects>>

\* on_deepgram_message for an EndOfTurn, up to the await of the generation call:
\* stream_id, setdefault, history.append(user), await get_openai_response
on_deepgram_message_end_of_turn ==
    /\ ListenerReady
    /\ inbox # << >>
    /\ IsEndOfTurn(Head(inbox))
    /\ LET message == Head(inbox)
           stream_id == IF current_stream_id # None THEN current_stream_id ELSE Unknown
           store == SetDefaultStore(conversation_history_by_stream_id, stream_id)
           cells == SetDefaultHeap(conversation_history_by_stream_id, stream_id)
           history == store[stream_id]
       IN /\ conversation_history_by_stream_id' = store
          /\ heap' = [cells EXCEPT ![history] = AppendUser(@, message.transcript)]
          /\ cycles' = Append(cycles, message.transcript)
          /\ frames' = frames \cup
                {[seq |-> message.transcript, pc |-> "generating", stream_id |-> stream_id,
                  history |-> history, fail |-> "none", yielded |-> 0, out |-> << >>,
                  request |-> RequestMessages(AppendUser(cells[history], message.transcript)),
                  elapsed_ms |-> 0, last_send_ms |-> 0,
                  playing_at_arrival |-> playing, playing_at_check |-> "unchecked",
                  peak |-> 0]}
    /\ inbox' = Tail(inbox)
    /\ UNCHANGED <<logged, media_in, dg_media, playing, current_stream_id, deepgram_connection, connection,
                   deepgram_task, plivo_task, ws_handler, arrived,
                   pending_checkpoints, disconnects>>

\* replace frame f by frame g
Upd(f, g) == (frames \ {f}) \cup {g}

\* "if playing:" skipped
NeedsClearNever(flag) == FALSE

\* "if playing:" - the barge-in check made when the reply text is available
NeedsClear(flag) == flag

\* get_openai_response returns: history.append(assistant), trim, return;
\* then "if playing: await send_clear_audio()" or, when not playing, straight
\* into stream_elevenlabs_audio up to its first await (playing = True, first fetch)
GenerateOk ==
    \E f \in frames :
        /\ f.pc = "generating"
        /\ heap' = [heap EXCEPT ![f.history] = AppendAssistant(@, Reply(f.seq))]
        /\ IF NeedsClear(playing)
           THEN /\ frames' = Upd(f, [f EXCEPT !.pc = "clearing",
                                              !.peak = Len(heap[f.history]) + 1,
                                              !.out = Append(@, Cmd("clear", 0)),
                                              !.playing_at_check = "yes"])
                /\ playing' = playing
           ELSE /\ frames' = Upd(f, [f EXCEPT !.pc = "fetching",
                                              !.peak = Len(heap[f.history]) + 1,
                                              !.playing_at_check = IF playing THEN "yes" ELSE "no"])
                /\ playing' = TRUE
        /\ UNCHANGED <<logged, media_in, dg_media, current_stream_id, conversation_history_by_stream_id,
                       deepgram_connection, connection, deepgram_task, plivo_task, ws_handler,
                       inbox, arrived, cycles, pending_checkpoints, disconnects>>

\* the user turn is taken back when the generation call raises
RollBackUser(history) == SubSeq(history, 1, Len(history) - 1)

\* nothing touches the history when the generation call raises
KeepUser(history) == history

\* get_openai_response raises: the exception leaves add_message_and_get_response
\* and on_deepgram_message, neither of which has a try block
GenerateFail ==
    \E f \in frames :
        /\ f.pc = "generating"
        /\ heap' = [heap EXCEPT ![f.history] = KeepUser(@)]
        /\ frames' = Upd(f, [f EXCEPT !.pc = "raised", !.fail = "generation"])
        /\ UNCHANGED <<logged, media_in, dg_media, playing, current_stream_id, conversation_history_by_stream_id,
                       deepgram_connection, connection, deepgram_task, plivo_task, ws_handler,
                       inbox, arrived, cycles, pending_checkpoints, disconnects>>

\* send_clear_audio returns: playing = False, then stream_elevenlabs_audio up to
\* its first await: convert(...), playing = True, first chunk fetch
ClearAudioDone ==
    \E f \in frames :
        /\ f.pc = "clearing"
        /\ playing' = TRUE
        /\ frames' = Upd(f, [f EXCEPT !.pc = "fetching"])
        /\ UNCHANGED <<logged, media_in, dg_media, current_stream_id, conversation_history_by_stream_id, heap,
                       deepgram_connection, connection, deepgram_task, plivo_task, ws_handler,
                       inbox, arrived, cycles, pending_checkpoints, disconnects>>

\* the chunk handed to send_media is always the first one
ChunkToSendFirst(yielded) == 1

\* the chunk handed to send_media is the one the iterator just yielded
ChunkToSend(yielded) == yielded

\* "async for audio_chunk in audio_stream" yields a chunk: await send_media(chunk)
SynthYield ==
    \E f \in frames :
        /\ f.pc = "fetching"
        /\ f.yielded < MaxChunks
        /\ frames' = Upd(f, [f EXCEPT !.pc = "sending",
                                      !.yielded = @ + 1,
                                      !.last_send_ms = f.elapsed_ms,
                                      !.out = Append(@, Cmd("media", ChunkToSend(f.yielded + 1)))])
        /\ UNCHANGED <<logged, media_in, dg_media, playing, current_stream_id, conversation_history_by_stream_id, heap,
                       deepgram_connection, connection, deepgram_task, plivo_task, ws_handler,
                       inbox, arrived, cycles, pending_checkpoints, disconnects>>

\* send_media returns: sample += audio_chunk; await asyncio.sleep(0.015)
SendMediaDone ==
    \E f \in frames :
        /\ f.pc = "sending"
        /\ frames' = Upd(f, [f EXCEPT !.pc = "sleeping"])
        /\ UNCHANGED <<logged, media_in, dg_media, playing, current_stream_id, conversation_history_by_stream_id, heap,
                       deepgram_connection, connection, deepgram_task, plivo_task, ws_handler,
                       inbox, arrived, cycles, pending_checkpoints, disconnects>>

\* the pacing sleep ends after its 15 ms: back to the iterator for the next chunk
SleepDone ==
    \E f \in frames :
        /\ f.pc = "sleeping"
        /\ frames' = Upd(f, [f EXCEPT !.pc = "fetching", !.elapsed_ms = @ + SleepMs])
        /\ UNCHANGED <<logged, media_in, dg_media, playing, current_stream_id, conversation_history_by_stream_id, heap,
                       deepgram_connection, connection, deepgram_task, plivo_task, ws_handler,
                       inbox, arrived, cycles, pending_checkpoints, disconnects>>

\* the iterator is exhausted: b64encode, log, await send_checkpoint("all_audio_played")
SynthEnd ==
    \E f \in frames :
        /\ f.pc = "fetching"
        /\ frames' = Upd(f, [f EXCEPT !.pc = "checkpointing",
                                      !.out = Append(@, Cmd("checkpoint", 0))])
        /\ pending_checkpoints' = pending_checkpoints + 1
        /\ UNCHANGED <<logged, media_in, dg_media, playing, current_stream_id, conversation_history_by_stream_id, heap,
                       deepgram_connection, connection, deepgram_task, plivo_task, ws_handler,
                       inbox, arrived, cycles, disconnects>>

\* the streamer's failure path sends the checkpoint and resets the flag
SynthFailOutFinally(out) == Append(out, Cmd("checkpoint", 0))

\* the streamer has no try/finally: nothing is sent on the failure path
SynthFailOut(out) == out

\* the iterator raises: the exception leaves stream_elevenlabs_audio and
\* on_deepgram_message
SynthFail ==
    \E f \in frames :
        /\ f.pc = "fetching"
        /\ frames' = Upd(f, [f EXCEPT !.pc = "raised", !.fail = "synthesis",
                                      !.out = SynthFailOut(@)])
        /\ UNCHANGED <<logged, media_in, dg_media, playing, current_stream_id, conversation_history_by_stream_id, heap,
                       deepgram_connection, connection, deepgram_task, plivo_task, ws_handler,
                       inbox, arrived, cycles, pending_checkpoints, disconnects>>

\* send_checkpoint returns: stream_elevenlabs_audio and on_deepgram_message return
CheckpointDone ==
    \E f \in frames :
        /\ f.pc = "checkpointing"
        /\ frames' = Upd(f, [f EXCEPT !.pc = "returned"])
        /\ UNCHANGED <<logged, media_in, dg_media, playing, current_stream_id, conversation_history_by_stream_id, heap,
                       deepgram_connection, connection, deepgram_task, plivo_task, ws_handler,
                       inbox, arrived, cycles, pending_checkpoints, disconnects>>

\* the callback returned: start_listening goes on to the next message
ListenerResume ==
    \E f \in frames :
        /\ f.pc = "returned"
        /\ frames' = frames \ {f}
        /\ UNCHANGED <<logged, media_in, dg_media, playing, current_stream_id, conversation_history_by_stream_id, heap,
                       deepgram_connection, connection, deepgram_task, plivo_task, ws_handler,
                       inbox, arrived, cycles, pending_checkpoints, disconnects>>

\* the callback's exception leaves start_listening and the async with block
TaskAfterRaise == "failed"

\* the callback raised: on_deepgram_message has no try block and the listener
\* loop does not resume after a callback's exception, so
\* connect_and_listen_deepgram ends (the async with closes the connection),
\* gather re-raises in stream_websocket_handler, whose except logs and returns
ListenerRaise ==
    \E f \in frames :
        /\ f.pc = "raised"
        /\ frames' = frames \ {f}
        /\ deepgram_task' = TaskAfterRaise
        /\ connection' = IF TaskAfterRaise = "failed" THEN "closed" ELSE connection
        /\ ws_handler' = IF TaskAfterRaise = "failed" THEN "returned" ELSE ws_handler
        /\ inbox' = IF TaskAfterRaise = "failed" THEN << >> ELSE inbox
        /\ UNCHANGED <<logged, media_in, dg_media, playing, current_stream_id, conversation_history_by_stream_id, heap,
                       deepgram_connection, plivo_task, arrived, cycles,
                       pending_checkpoints, disconnects>>

\* ----------------------------------------------------- Plivo handler task
\* on_start: current_stream_id = event.start.stream_id; setdefault(id, [])
\* (stream ids are opaque and interchangeable: "s2" stands for an id announced
\* after "s1", so only one of the two symmetric namings is explored)
on_start(stream_id) ==
    /\ plivo_task = "running"
    /\ stream_id = "s2" => "s1" \in DOMAIN conversation_history_by_stream_id
    /\ current_stream_id' = stream_id
    /\ conversation_history_by_stream_id' =
           SetDefaultStore(conversation_history_by_stream_id, stream_id)
    /\ heap' = SetDefaultHeap(conversation_history_by_stream_id, stream_id)
    /\ UNCHANGED <<logged, media_in, dg_media, playing, deepgram_connection, connection, deepgram_task, plivo_task,
                   ws_handler, inbox, arrived, cycles, frames, pending_checkpoints,
                   disconnects>>

\* on_played_stream: playing = False
on_played_stream ==
    /\ plivo_task = "running"
    /\ pending_checkpoints > 0
    /\ pending_checkpoints' = pending_checkpoints - 1
    /\ playing' = FALSE
    /\ UNCHANGED <<logged, media_in, dg_media, current_stream_id, conversation_history_by_stream_id, heap,
                   deepgram_connection, connection, deepgram_task, plivo_task, ws_handler,
                   inbox, arrived, cycles, frames, disconnects>>

\* one task serves both legs: no control event is handled while a turn runs
RelayReadySingleTask == plivo_task = "running" /\ frames = {}

\* plivo_handler.start() runs in its own task next to the Deepgram listener
RelayReady == plivo_task = "running"

\* the connection test left out: send_media is called whatever deepgram_connection is
RelayCallsNoTest(conn, event, during) == <<[raw |-> event.raw, during |-> during]>>

\* "if deepgram_connection is not None: await deepgram_connection.send_media(
\* event.get_raw_media()) else: logger.warning(...)": the calls made for one event
RelayCalls(conn, event, during) ==
    IF conn # None THEN <<[raw |-> event.raw, during |-> during]>> ELSE << >>

\* on_plivo_media for the next inbound media event; "during" notes where the
\* turn handler is suspended while the event is served
on_plivo_media ==
    /\ RelayReady
    /\ media_in < MaxMedia
    /\ media_in' = media_in + 1
    /\ LET event == [raw |-> media_in + 1]
           during == {f.pc : f \in frames}
       IN dg_media' = dg_media \o RelayCalls(deepgram_connection, event, during)
    /\ UNCHANGED <<logged, playing, current_stream_id, conversation_history_by_stream_id, heap,
                   deepgram_connection, connection, deepgram_task, plivo_task, ws_handler,
                   inbox, arrived, cycles, frames, pending_checkpoints, disconnects>>

\* a cleared-audio acknowledgment taken as the end of playback
PlayingAfterLogReset(kind, flag) == IF kind = "cleared_audio" THEN FALSE ELSE flag

\* on_dtmf and on_cleared_audio declare no nonlocal and call logger.info only
PlayingAfterLog(kind, flag) == flag

\* a control event whose callback only logs
LogOnly(kind) ==
    /\ plivo_task = "running"
    /\ Len(logged) < MaxLogEvents
    /\ logged' = Append(logged, kind)
    /\ playing' = PlayingAfterLog(kind, playing)
    /\ UNCHANGED <<media_in, dg_media, current_stream_id, conversation_history_by_stream_id,
                   heap, deepgram_connection, connection, deepgram_task, plivo_task,
                   ws_handler, inbox, arrived, cycles, frames, pending_checkpoints,
                   disconnects>>

\* on_dtmf: logger.info(digit)
on_dtmf == LogOnly("dtmf")

\* on_cleared_audio: logger.info(stream_id)
on_cleared_audio == LogOnly("cleared_audio")

\* the second on_disconnected only: nothing is deleted
StoreAfterDisconnectLogOnly(store, id) == store

\* the first on_disconnected: "if current_stream_id and current_stream_id in d: del d[id]"
StoreAfterDisconnect(store, id) ==
    IF id # None /\ id \in DOMAIN store THEN DelKey(store, id) ELSE store

\* the handler notifies a disconnect: every callback registered with
\* on_disconnected runs, in registration order
plivo_handler_disconnected ==
    /\ disconnects < MaxDisconnects
    /\ disconnects' = disconnects + 1
    /\ plivo_task' = "stopped"
    /\ conversation_history_by_stream_id' =
           StoreAfterDisconnect(conversation_history_by_stream_id, current_stream_id)
    /\ UNCHANGED <<logged, media_in, dg_media, playing, current_stream_id, heap, deepgram_connection, connection,
                   deepgram_task, ws_handler, inbox, arrived, cycles, frames,
                   pending_checkpoints>>

\* ------------------------------------------------------------ next-state
TurnStep ==
    \/ GenerateOk
    \/ GenerateFail
    \/ ClearAudioDone
    \/ SynthYield
    \/ SendMediaDone
    \/ SleepDone
    \/ SynthEnd
    \/ SynthFail
    \/ CheckpointDone
    \/ ListenerResume
    \/ ListenerRaise

DeepgramStep ==
    \/ connect_and_listen_deepgram
    \/ on_deepgram_message_log
    \/ on_deepgram_message_end_of_turn
    \/ TurnStep

PlivoStep ==
    \/ \E stream_id \in StreamIds : on_start(stream_id)
    \/ on_played_stream
    \/ plivo_handler_disconnected

Next == DeepgramMessageArrives(MaxTurns) \/ DeepgramStep \/ PlivoStep

Spec == Init /\ [][Next]_vars

\* the turn pipeline alone, fed with enough EndOfTurn events to fill the history
NextHist == DeepgramMessageArrives(MaxExchanges) \/ DeepgramStep

SpecHist == Init /\ [][NextHist]_vars

\* the media relay next to the turn pipeline of one stream; on_plivo_media
\* writes only media_in and dg_media, which no other action reads, so Spec
\* leaves it to this specification (which in turn leaves out the stream-start
\* and played-stream events, which the relay does not read)
NextRelay ==
    \/ DeepgramMessageArrives(MaxRelayTurns)
    \/ DeepgramStep
    \/ on_plivo_media
    \/ plivo_handler_disconnected

SpecRelay == Init /\ [][NextRelay]_vars

\* the turn pipeline next to the control events that are only logged
NextLog ==
    \/ DeepgramMessageArrives(MaxRelayTurns)
    \/ DeepgramStep
    \/ on_played_stream
    \/ on_dtmf
    \/ on_cleared_audio

SpecLog == Init /\ [][NextLog]_vars

\* the event loop runs every task that is ready: a step of the listener task
\* or of the Plivo handler task that stays possible is eventually taken; the
\* arrival of messages and control events is up to the environment
SpecFair == Spec /\ WF_vars(DeepgramStep)

\* ------------------------------------------------- observation helpers
HasCmd(out, name) == \E i \in DOMAIN out : out[i].cmd = name

CountCmd(out, name) == Cardinality({i \in DOMAIN out : out[i].cmd = name})

IsMedia(c) == c.cmd = "media"

\* the chunk numbers of the send_media calls of one reply, in call order
MediaChunks(out) ==
    LET media == SelectSeq(out, IsMedia)
    IN [i \in DOMAIN media |-> media[i].chunk]

ClearBeforeMedia(out) ==
    \E i \in DOMAIN out :
        /\ out[i].cmd = "clear"
        /\ \A j \in DOMAIN out : out[j].cmd = "media" => i < j

InFlight(f) == f.pc = "generating"

GenerationFailed(f) == f.fail = "generation"

\* ------------------------------------------------------------------ C1
\* C1 (as stated): every EndOfTurn handled while playing is true gets a
\* send_clear_audio before the first send_media of its reply, whatever control
\* events arrive while the reply is being generated.
C1_ClearForEveryTurnArrivingWhilePlaying ==
    \A f \in frames :
        (f.playing_at_arrival /\ HasCmd(f.out, "media")) => ClearBeforeMedia(f.out)

\* C1 (amended): the flag is read when the generation call has returned; if it
\* is true then, send_clear_audio is issued at once and precedes every
\* send_media of that reply; if it is false then, no clear-audio is issued.
C1_ClearWhenPlayingAtCheck ==
    \A f \in frames :
        /\ f.playing_at_check = "yes" => HasCmd(f.out, "clear") /\ ClearBeforeMedia(f.out)
        /\ f.playing_at_check = "no" => ~HasCmd(f.out, "clear")
        /\ f.playing_at_check = "unchecked" => f.out = << >>

C1_Witness ==
    \E f \in frames :
        /\ f.playing_at_arrival
        /\ f.playing_at_check = "yes"
        /\ HasCmd(f.out, "media")

\* ------------------------------------------------------------------ C2
EndOfTurnsWaiting == Cardinality({i \in DOMAIN inbox : IsEndOfTurn(inbox[i])})

\* C2: at most one response cycle is in progress at any time, cycles start in
\* the arrival order of their EndOfTurn events, and every EndOfTurn taken from
\* the connection has started exactly one cycle.
C2_OneCycleAtATimeInArrivalOrder ==
    /\ Cardinality(frames) <= 1
    /\ \A i \in DOMAIN cycles : cycles[i] = i
    /\ \A f \in frames : f.seq = cycles[Len(cycles)]
    /\ deepgram_task # "failed" => Len(cycles) + EndOfTurnsWaiting = arrived

C2_Witness ==
    /\ Len(cycles) = 1
    /\ \E f \in frames : f.seq = 1 /\ f.pc = "sleeping"
    /\ EndOfTurnsWaiting = 1
    /\ Len(inbox) = 2

\* ------------------------------------------------------------------ C3
\* C3 (as stated): in every reachable state every history holds at most 20
\* entries.
C3_HistoryNeverAboveCap == \A o \in DOMAIN heap : Len(heap[o]) <= HistoryCap

\* C3 (amended): a history holds at most 20 entries whenever no generation
\* call on it is in flight and no call has failed; it holds at most 21 while
\* the call is in flight or after it failed, and at most 22 between the
\* assistant append and the trim.
C3_HistoryBoundedAroundCalls ==
    /\ \A o \in DOMAIN heap : Len(heap[o]) <= HistoryCap + 1
    /\ \A o \in DOMAIN heap :
          (/\ deepgram_task # "failed"
           /\ \A f \in frames : f.history = o => ~InFlight(f) /\ ~GenerationFailed(f))
          => Len(heap[o]) <= HistoryCap
    /\ \A f \in frames : f.peak <= HistoryCap + 2

C3_Witness ==
    \E f \in frames : f.peak = HistoryCap + 2 /\ Len(heap[f.history]) = HistoryCap

\* ------------------------------------------------------------------ C4
\* C4: once add_message_and_get_response has returned, the history it worked
\* on holds at most 20 entries and an even number of them.
C4_EvenAndCappedAfterCall ==
    \A f \in frames :
        (~InFlight(f) /\ ~GenerationFailed(f))
        => /\ Len(heap[f.history]) <= HistoryCap
           /\ Len(heap[f.history]) % 2 = 0

C4_Witness ==
    \E f \in frames :
        /\ f.seq = MaxExchanges
        /\ f.pc = "returned"
        /\ Len(heap[f.history]) = HistoryCap

\* ------------------------------------------------------------------ C5
Min(a, b) == IF a < b THEN a ELSE b

\* the last min(k, 10) user/assistant pairs of exchanges 1..k
LastPairs(k) ==
    LET kept == Min(k, HistoryCap \div 2)
    IN [i \in 1..(2 * kept) |->
           Turn(IF i % 2 = 1 THEN "user" ELSE "assistant", k - kept + ((i + 1) \div 2))]

\* C5: after k successful exchanges appended one after the other to an empty
\* history, the history is the last min(k, 10) pairs of the exchange sequence,
\* in order.
C5_KeepsMostRecentPairsInOrder ==
    (/\ deepgram_task # "failed"
     /\ \A f \in frames : ~InFlight(f) /\ ~GenerationFailed(f))
    => \A o \in DOMAIN heap : heap[o] = LastPairs(Len(cycles))

C5_Witness ==
    /\ Len(cycles) = 11
    /\ \E f \in frames : f.seq = 11 /\ f.pc = "returned"
    /\ Len(heap[1]) = HistoryCap
    /\ heap[1][1] = Turn("user", 2)
    /\ heap[1][HistoryCap] = Turn("assistant", 11)

\* ------------------------------------------------------------------ C6
\* C6: the send_media calls of a reply carry the chunks in the order the
\* synthesis iterator yielded them, one call per chunk; a checkpoint is only
\* ever the last command of the reply, and a reply that completed has exactly
\* one, after its last send_media.
C6_ChunksInOrderThenOneCheckpoint ==
    \A f \in frames :
        /\ MediaChunks(f.out) = [i \in 1..f.yielded |-> i]
        /\ \A i \in DOMAIN f.out :
              f.out[i].cmd = "checkpoint"
              => i = Len(f.out) /\ f.pc \in {"checkpointing", "returned"}
        /\ f.pc = "returned"
           => /\ CountCmd(f.out, "checkpoint") = 1
              /\ f.out[Len(f.out)].cmd = "checkpoint"
              /\ CountCmd(f.out, "media") = f.yielded

C6_Witness ==
    \E f \in frames :
        /\ f.pc = "returned"
        /\ f.yielded = 2
        /\ MediaChunks(f.out) = <<1, 2>>

\* ------------------------------------------------------------------ C7
SynthesisFailed(f) == f.fail = "synthesis"

C7_NothingSentAfterFailure ==
    \A f \in frames :
        SynthesisFailed(f)
        => /\ f.pc = "raised"
           /\ MediaChunks(f.out) = [i \in 1..f.yielded |-> i]
           /\ ~HasCmd(f.out, "checkpoint")

C7_FailureLeavesFlag ==
    [][(\E g \in frames' : SynthesisFailed(g) /\ g \notin frames) => playing' = playing]_vars

\* C7: when the synthesis iterator raises after k chunks, the reply has exactly
\* the k send_media calls made so far and no checkpoint, the failing step does
\* not write the playback flag, and the handler is left by the exception.
C7_SynthesisFailureStopsReply == []C7_NothingSentAfterFailure /\ C7_FailureLeavesFlag

C7_Witness ==
    \E f \in frames :
        /\ SynthesisFailed(f)
        /\ f.yielded = 1
        /\ playing

\* ------------------------------------------------------------------ C8
\* C8: when the generation call raises, the user turn of that transcript is
\* still the last entry of the history (no assistant turn follows it) and the
\* turn has issued no clear-audio, send_media or checkpoint.
C8_GenerationFailureKeepsUserTurn ==
    \A f \in frames :
        GenerationFailed(f)
        => /\ f.pc = "raised"
           /\ f.out = << >>
           /\ Len(heap[f.history]) > 0
           /\ heap[f.history][Len(heap[f.history])] = Turn("user", f.seq)

C8_Witness ==
    \E f \in frames :
        /\ GenerationFailed(f)
        /\ f.seq = 2
        /\ Len(heap[f.history]) = 3

\* ------------------------------------------------------------------ C9
\* C9 (as stated): a turn that fails in generation or synthesis does not end
\* the session: the transcription listener keeps running on its open
\* connection, so later EndOfTurn events are still handled.
C9_ListenerSurvivesFailedTurn ==
    /\ deepgram_task # "failed"
    /\ connection # "closed"
    /\ ws_handler # "returned"

\* ----------------------------------------------------------------- C10
\* C10: a disconnect leaves no entry for the current stream id in the store,
\* leaves every other entry alone, and changes nothing when the entry is
\* already absent (a repeated disconnect).
C10_DisconnectRemovesEntry ==
    [][disconnects' = disconnects + 1
       => /\ current_stream_id # None
             => current_stream_id \notin DOMAIN conversation_history_by_stream_id'
          /\ current_stream_id \notin DOMAIN conversation_history_by_stream_id
             => conversation_history_by_stream_id' = conversation_history_by_stream_id
          /\ \A k \in DOMAIN conversation_history_by_stream_id \ {current_stream_id} :
                /\ k \in DOMAIN conversation_history_by_stream_id'
                /\ conversation_history_by_stream_id'[k] = conversation_history_by_stream_id[k]
      ]_vars

C10_Witness ==
    /\ disconnects = 2
    /\ current_stream_id # None
    /\ current_stream_id \notin DOMAIN conversation_history_by_stream_id
    /\ DOMAIN conversation_history_by_stream_id # {}

\* ----------------------------------------------------------------- C11
Removed == disconnects > 0 /\ current_stream_id # None

\* C11 (as stated): once a disconnect has removed the current stream's entry,
\* nothing more is processed for it: no later step re-creates a store entry,
\* appends to a history, or issues clear-audio, media or a checkpoint.
C11_NothingProcessedAfterRemoval ==
    [][(Removed /\ disconnects' = disconnects)
       => /\ conversation_history_by_stream_id' = conversation_history_by_stream_id
          /\ heap' = heap
          /\ \A g \in frames' : \E f \in frames : f.seq = g.seq /\ f.out = g.out
      ]_vars

\* ----------------------------------------------------------------- C12
\* C12 (as stated): after the telephony leg has disconnected, the transcription
\* listener eventually stops and the websocket handler eventually returns.
C12_DisconnectEndsSession ==
    (disconnects > 0) ~> (deepgram_task # "listening" /\ ws_handler = "returned")

\* ----------------------------------------------------------------- C13
\* C13 (as stated): a stream-start for a stream id that already has a session
\* leaves an empty history stored for that id.
C13_RestartEmptiesHistory ==
    [][(/\ current_stream_id' # current_stream_id
        /\ current_stream_id' \in DOMAIN conversation_history_by_stream_id)
       => heap'[conversation_history_by_stream_id'[current_stream_id']] = << >>
      ]_vars

\* ----------------------------------------------------------------- C14
CurrentKey == IF current_stream_id # None THEN current_stream_id ELSE Unknown

C14_NoSharedHistory ==
    \A k1, k2 \in DOMAIN conversation_history_by_stream_id :
        k1 # k2 => conversation_history_by_stream_id[k1] # conversation_history_by_stream_id[k2]

\* a list changes only in a step of the turn that holds it, a turn holds the
\* list stored under the stream id it was started for, and its request is
\* read from that list
C14_HistoryTouchedByOwnTurnOnly ==
    [][/\ \A o \in DOMAIN heap :
             heap'[o] # heap[o]
             => \E f \in frames \cup frames' :
                   f.history = o /\ (f \notin frames \/ f \notin frames')
       /\ \A g \in frames' :
             (\A f \in frames : f.seq # g.seq)
             => /\ g.stream_id = CurrentKey
                /\ conversation_history_by_stream_id'[g.stream_id] = g.history
                /\ Tail(g.request) = heap'[g.history]
      ]_vars

Raws(calls) == [i \in DOMAIN calls |-> calls[i].raw]

C15_ForwardedInArrivalOrder ==
    /\ \A i \in DOMAIN dg_media : dg_media[i].raw \in 1..media_in
    /\ \A i, j \in DOMAIN dg_media : i < j => dg_media[i].raw < dg_media[j].raw

C15_OneCallPerEvent ==
    [][media_in' = media_in + 1
       => IF deepgram_connection # None
          THEN Raws(dg_media') = Append(Raws(dg_media), media_in + 1)
          ELSE /\ dg_media' = dg_media
               /\ plivo_task' = plivo_task
               /\ ws_handler' = ws_handler
               /\ deepgram_task' = deepgram_task
      ]_vars

\* C15: a media event handled once a transcription connection has been
\* established makes exactly one send_media call with the event's raw
\* payload, calls are in arrival order; a media event handled before that
\* makes no call and leaves the session running.
C15_RelayForwardsEachFrameOnce == []C15_ForwardedInArrivalOrder /\ C15_OneCallPerEvent

C15_Witness ==
    /\ media_in = 2
    /\ Raws(dg_media) = <<2>>
    /\ plivo_task = "running"

\* ----------------------------------------------------------------- C16
\* C16: while a response cycle is suspended in the generation call, in a chunk
\* fetch or in the pacing sleep, the handler task can take the next media
\* event.
C16_RelayNotBlockedByReply ==
    \A f \in frames :
        (/\ f.pc \in {"generating", "fetching", "sleeping"}
         /\ plivo_task = "running"
         /\ media_in < MaxMedia)
        => ENABLED on_plivo_media

C16_Witness ==
    \E i, j \in DOMAIN dg_media :
        /\ "generating" \in dg_media[i].during
        /\ "sleeping" \in dg_media[j].during

\* ----------------------------------------------------------------- C17
\* C17 (as stated): a reply that has sent no chunk has not set the playback
\* flag: if the flag was false when the turn checked it, it is still false
\* until the reply's first send_media.
C17_FlagSetOnlyWithFirstChunk ==
    \A f \in frames :
        (f.playing_at_check = "no" /\ ~HasCmd(f.out, "media")) => ~playing

\* ----------------------------------------------------------------- C18
InFlagWindow(f) == f.pc \in {"clearing", "fetching", "sending", "sleeping"}

\* C18 (as stated): between a turn's barge-in check and its checkpoint, a step
\* that is not a step of that turn does not write the playback flag.
C18_NoForeignWriteInsideTurn ==
    [][((\E f \in frames : InFlagWindow(f)) /\ frames' = frames) => playing' = playing]_vars

\* ----------------------------------------------------------------- C19
\* playback time of a chunk of 16-bit mono PCM at 16 kHz, in milliseconds
DurationMs(bytes) == (bytes * 1000) \div (2 * PcmRate)

\* C19 (as stated): when the k-th chunk of a reply is sent, at least (k-1) chunk
\* durations have passed since the first send_media, whatever the chunk size.
C19_PacedAtChunkDuration ==
    \A f \in frames : \A bytes \in ChunkBytes :
        f.yielded >= 1 => f.last_send_ms >= (f.yielded - 1) * DurationMs(bytes)

\* ----------------------------------------------------------------- C20
\* C20: the request of a turn is the system prompt followed by the whole
\* history as it is while the call is in flight, ending with this turn's user
\* entry; every stored entry has the role user or assistant.
C20_RequestIsPromptPlusHistory ==
    /\ \A f \in frames :
          /\ f.request[1] = Turn("system", SYSTEM_PROMPT)
          /\ f.request[Len(f.request)] = Turn("user", f.seq)
          /\ f.pc = "generating" => Tail(f.request) = heap[f.history]
    /\ \A o \in DOMAIN heap : \A i \in DOMAIN heap[o] :
          heap[o][i].role \in {"user", "assistant"}

C20_Witness ==
    \E f \in frames :
        /\ f.pc = "generating"
        /\ Len(f.request) = 4
        /\ f.request[2] = Turn("user", 1)

\* ----------------------------------------------------------------- C21
\* a step that handles a DTMF event or a cleared-audio acknowledgment
ControlLogStep == logged' # logged

\* a step in which on_deepgram_message handles a message that is not an EndOfTurn
TranscriptionLogStep ==
    /\ ListenerReady
    /\ inbox # << >>
    /\ ~IsEndOfTurn(Head(inbox))
    /\ inbox' = Tail(inbox)

\* C21: handling a StartOfTurn event, a transcription event of another type, a
\* DTMF event or a cleared-audio acknowledgment leaves the history store, the
\* current stream id and the playback flag as they were and sends no command
\* to the telephony leg.
C21_LogOnlyEventsChangeNothing ==
    [][(ControlLogStep \/ TranscriptionLogStep)
       => /\ conversation_history_by_stream_id' = conversation_history_by_stream_id
          /\ heap' = heap
          /\ current_stream_id' = current_stream_id
          /\ playing' = playing
          /\ frames' = frames
          /\ cycles' = cycles
          /\ pending_checkpoints' = pending_checkpoints
      ]_vars

C21_Witness ==
    /\ logged = <<"dtmf", "cleared_audio">>
    /\ playing
    /\ Len(cycles) = 2
    /\ inbox = << >>
    /\ \E f \in frames : f.pc = "sleeping" /\ HasCmd(f.out, "clear")

\* ----------------------------------------------------------------- C22
\* a reply of which a chunk was sent and whose checkpoint is not sent yet: it
\* cannot have been reported played, and only a later turn could clear it
Outstanding(f) == HasCmd(f.out, "media") /\ f.pc \in {"fetching", "sending", "sleeping"}

\* C22 (as stated): while chunks of a reply have been sent and that reply has
\* neither been reported played nor been cleared, the playback flag is true.
C22_FlagCoversOutstandingAudio == \A f \in frames : Outstanding(f) => playing

\* ----------------------------------------------------------------- C23
\* C23 (as stated): a media event handled after the transcription connection
\* has closed makes no send_media call on it.
C23_NoForwardToClosedConnection ==
    [][(media_in' = media_in + 1 /\ connection = "closed") => dg_media' = dg_media]_vars
====
